---- MODULE Spec2Model ----
(***************************************************************************)
(* A model of latex.py: num_to_latex (with its inner proc_value),          *)
(* vector_to_latex, matrix_to_latex and array_to_latex.                    *)
(*                                                                         *)
(* Numbers.  A real value is an integer A that stands for A / Scale, a     *)
(* decimal with six places.  np.isclose, np.mod, np.round, the division by *)
(* the common factor, Fraction.limit_denominator and the "{:.{}f}" format  *)
(* are computed on that grid with exact integer arithmetic.  The five      *)
(* irrational table entries are the grid points nearest to them.           *)
(*                                                                         *)
(* Strings.  A Python str is a sequence of one-character strings, so that  *)
(* slicing (out_string[:-2], out_string[:-4]) and rstrip("0") act on       *)
(* characters as they do in the code.                                      *)
(*                                                                         *)
(* Optional values.  None is <<>> and a present value x is <<x>>.          *)
(***************************************************************************)
EXTENDS Integers, Sequences, FiniteSets, TLC

VARIABLES
    \* ---- one call of num_to_latex (SpecScalar) ----
    num,              \* the argument: [re |-> A, im |-> B]
    nprecision,       \* the argument precision
    r, i,             \* locals r and i (rescaled when a factor is extracted)
    common_factor,    \* local common_factor: <<>> (None) or <<cf>>
    common_facstring, \* local common_facstring: <<>> (None) or <<str>>
    realstring,       \* local realstring
    operation,        \* local operation: "+" or "-"
    imagstring,       \* local imagstring (after the == "1" replacement)
    result,           \* the return value: <<>> before the return, then <<str>>
    npc,              \* position in num_to_latex
    \* ---- one call of array_to_latex (Spec) ----
    array,            \* the argument after np.asarray: [coercible, dtype, ndim, data]
    precision,        \* the argument precision
    pretext,          \* the argument pretext
    display_output,   \* the argument display_output
    out_string,       \* local out_string of vector_to_latex / matrix_to_latex
    row, col,         \* loop positions: elements (rows) and columns done
    output,           \* array_to_latex's output: <<>> or <<str>>
    returned,         \* what array_to_latex returned: <<>> (nothing) or <<str>>
    displayed,        \* the strings handed to display(Math(...))
    error,            \* <<>> or <<[type, message]>>: the exception raised
    formatted,        \* number of num_to_latex calls made so far
    pc                \* position in array_to_latex

scalar_vars == <<num, nprecision, r, i, common_factor, common_facstring,
                 realstring, operation, imagstring, result, npc>>
array_vars == <<array, precision, pretext, display_output, out_string, row, col,
                output, returned, displayed, error, formatted, pc>>
vars == <<scalar_vars, array_vars>>

(***************************************************************************)
(* Bounds of the model.                                                    *)
(***************************************************************************)
MaxPrecision == 6
MaxLen == 2
MaxRows == 2
MaxCols == 2

(***************************************************************************)
(* Numbers on the grid.                                                    *)
(***************************************************************************)
Scale == 10^6

Abs(x) == IF x < 0 THEN -x ELSE x

RECURSIVE GCD(_, _)
GCD(a, b) == IF b = 0 THEN a ELSE GCD(b, a % b)

\* np.isclose(a, b) with numpy's defaults rtol = 1e-05, atol = 1e-08:
\* |a - b| <= atol + rtol * |b|.  Times Scale * 10^5 it reads
\* |A - B| * 10^5 <= Scale / 1000 + |B|, and the left side is a multiple of 10^5.
isclose(a, b) == Abs(a - b) <= ((Scale \div 1000) + Abs(b)) \div 100000

\* np.mod(val, 1): the result has the sign of the divisor, so it lies in [0, 1).
mod1(val) == val % Scale

\* Nearest multiple of unit to a >= 0, counted in units; a tie goes to the
\* even neighbour (np.round, and the decimal rounding of the format).  A tie
\* is exact only for a value that is a binary fraction (9.5); the values drawn
\* below have no other tie at any precision.
RoundHalfEven(a, unit) ==
    LET q == a \div unit
        rem == a % unit
    IN  IF 2 * rem < unit THEN q
        ELSE IF 2 * rem > unit THEN q + 1
        ELSE IF q % 2 = 0 THEN q ELSE q + 1

\* int(np.round(val))
round_int(val) ==
    IF val < 0 THEN -RoundHalfEven(-val, Scale) ELSE RoundHalfEven(val, Scale)

\* The first k decimal places of rem / c, for 0 <= rem < c, as an integer.
RECURSIVE FracDigits(_, _, _)
FracDigits(rem, c, k) ==
    IF k = 0 THEN 0
    ELSE LET t == rem * 10
         IN  (t \div c) * 10^(k - 1) + FracDigits(t % c, c, k - 1)

\* a / c for c > 0, rounded to the nearest grid point (long division to seven
\* places, the seventh deciding the rounding).
divide(a, c) ==
    LET m == Abs(a)
        seven == FracDigits(m % c, c, 7)
        q == (m \div c) * Scale + (seven \div 10)
             + (IF seven % 10 >= 5 THEN 1 ELSE 0)
    IN  IF a < 0 THEN -q ELSE q

(***************************************************************************)
(* Strings.                                                                *)
(***************************************************************************)
Digits == <<"0", "1", "2", "3", "4", "5", "6", "7", "8", "9">>

RECURSIVE NatStr(_)
NatStr(n) ==
    IF n < 10 THEN <<Digits[n + 1]>>
    ELSE NatStr(n \div 10) \o <<Digits[(n % 10) + 1]>>

\* str(n) and "%i" % n for an int n
str(n) == IF n < 0 THEN <<"-">> \o NatStr(-n) ELSE NatStr(n)

RECURSIVE Zeros(_)
Zeros(k) == IF k <= 0 THEN <<>> ELSE <<"0">> \o Zeros(k - 1)

\* s.rstrip("0"): every trailing "0" of s goes, whatever stands before it.
RECURSIVE rstrip0(_)
rstrip0(s) ==
    IF Len(s) > 0 /\ s[Len(s)] = "0" THEN rstrip0(SubSeq(s, 1, Len(s) - 1))
    ELSE s

\* s[:-k]
DropLast(s, k) == SubSeq(s, 1, Len(s) - k)

\* "{:.{}f}".format(val, p): sign, integer part, and for p > 0 a point and
\* exactly p decimals.  A negative value keeps its sign even when it rounds to 0.
format_f(val, p) ==
    LET m == Abs(val)
        sign == IF val < 0 THEN <<"-">> ELSE <<>>
    IN  IF p >= 6
        THEN LET fr == NatStr(m % Scale)
             IN  sign \o NatStr(m \div Scale) \o <<".">>
                 \o Zeros(6 - Len(fr)) \o fr \o Zeros(p - 6)
        ELSE LET q == RoundHalfEven(m, 10^(6 - p))
                 ip == q \div 10^p
                 fr == NatStr(q % 10^p)
             IN  IF p = 0 THEN sign \o NatStr(ip)
                 ELSE sign \o NatStr(ip) \o <<".">> \o Zeros(p - Len(fr)) \o fr

(***************************************************************************)
(* num_to_latex                                                            *)
(***************************************************************************)
TFRAC == <<"\\", "t", "f", "r", "a", "c">>
SQRT == <<"\\", "s", "q", "r", "t">>

\* "\\tfrac{%i}{%i}" % (a, b)
tfrac_str(a, b) == TFRAC \o <<"{">> \o str(a) \o <<"}", "{">> \o str(b) \o <<"}">>

\* The dict common_terms, in insertion order; a term is the grid point nearest
\* to 1/sqrt(2), 1/sqrt(3), sqrt(2/3), sqrt(3/4), 1/sqrt(8).
common_terms ==
    << [term |-> 707107,
        latex_str |-> TFRAC \o <<"{", "1", "}", "{">> \o SQRT \o <<"{", "2", "}", "}">>],
       [term |-> 577350,
        latex_str |-> TFRAC \o <<"{", "1", "}", "{">> \o SQRT \o <<"{", "3", "}", "}">>],
       [term |-> 816497,
        latex_str |-> SQRT \o <<"{">> \o TFRAC \o <<"{", "2", "}", "{", "3", "}", "}">>],
       [term |-> 866025,
        latex_str |-> SQRT \o <<"{">> \o TFRAC \o <<"{", "3", "}", "{", "4", "}", "}">>],
       [term |-> 353553,
        latex_str |-> TFRAC \o <<"{", "1", "}", "{">> \o SQRT \o <<"{", "8", "}", "}">>] >>

\* The threshold of "if num + denom < 20".
FracLimit == 20

\* The test of line 39: val is close to an integer.
close_to_int(val) == isclose(mod1(val), 0) \/ isclose(mod1(val), Scale)

\* The positions of common_terms that the loop of line 43 would accept.
term_matches(val) ==
    {k \in 1..Len(common_terms) : isclose(Abs(val), common_terms[k].term)}

\* Fraction(val).limit_denominator(): the fraction in lowest terms.  The
\* denominator of a grid value divides Scale = max_denominator, so the nearest
\* fraction is the value itself.
limit_denominator(val) ==
    LET g == GCD(Abs(val), Scale)
    IN  [numerator |-> val \div g, denominator |-> Scale \div g]

\* The test of line 52, on the numerator as it is (signed).
frac_small(frac) == frac.numerator + frac.denominator < FracLimit

\* The branch proc_value takes for val.
proc_branch(val) ==
    IF close_to_int(val) THEN "integer"
    ELSE IF term_matches(val) # {} THEN "constant"
    ELSE IF frac_small(limit_denominator(val)) THEN "fraction"
    ELSE "decimal"

\* The decimal fallback of line 59.
decimal_str(val, p) == rstrip0(format_f(val, p))

\* proc_value(val), with the enclosing precision p.
proc_value(val, p) ==
    LET branch == proc_branch(val)
    IN  IF branch = "integer" THEN str(round_int(val))
        ELSE IF branch = "constant"
        THEN LET k == CHOOSE k \in term_matches(val) :
                          \A j \in term_matches(val) : k <= j
             IN  IF val > 0 THEN common_terms[k].latex_str
                 ELSE <<"-">> \o common_terms[k].latex_str
        ELSE IF branch = "fraction"
        THEN LET frac == limit_denominator(val)
                 s == tfrac_str(Abs(frac.numerator), Abs(frac.denominator))
             IN  IF val > 0 THEN s ELSE <<"-">> \o s
        ELSE decimal_str(val, p)

\* Lines 19-27: r, i and the common factor.
extract_factor(n) ==
    IF isclose(Abs(n.re), Abs(n.im)) /\ ~isclose(n.re, 0)
    THEN [r |-> divide(n.re, Abs(n.re)), i |-> divide(n.im, Abs(n.re)),
          common_factor |-> <<Abs(n.re)>>]
    ELSE [r |-> n.re, i |-> n.im, common_factor |-> <<>>]

\* render_parts without the replacement of "1" by "" (lines 72-73 left out).
render_parts_keep1(f, p) ==
    [common_facstring |-> IF f.common_factor # <<>>
                          THEN <<proc_value(f.common_factor[1], p)>>
                          ELSE <<>>,
     realstring |-> proc_value(f.r, p),
     operation |-> IF f.i > 0 THEN "+" ELSE "-",
     imagstring |-> IF f.i > 0 THEN proc_value(f.i, p) ELSE proc_value(-f.i, p)]

\* Lines 61-73: the strings of the parts.
render_parts(f, p) ==
    LET imag == IF f.i > 0 THEN proc_value(f.i, p) ELSE proc_value(-f.i, p)
    IN  [common_facstring |-> IF f.common_factor # <<>>
                              THEN <<proc_value(f.common_factor[1], p)>>
                              ELSE <<>>,
         realstring |-> proc_value(f.r, p),
         operation |-> IF f.i > 0 THEN "+" ELSE "-",
         imagstring |-> IF imag = <<"1">> THEN <<>> ELSE imag]

\* assemble with the tests of lines 74 and 76 in the other order.
assemble_swapped(s) ==
    IF s.realstring = <<"0">>
    THEN IF s.operation = "-" THEN <<"-">> \o s.imagstring \o <<"i">>
         ELSE s.imagstring \o <<"i">>
    ELSE IF s.imagstring = <<"0">> THEN s.realstring
    ELSE IF s.common_facstring # <<>>
    THEN s.common_facstring[1] \o <<"(">> \o s.realstring \o <<" ", s.operation, " ">>
         \o s.imagstring \o <<"i", ")">>
    ELSE s.realstring \o <<" ", s.operation, " ">> \o s.imagstring \o <<"i">>

\* assemble without the branch of lines 81-82: the factor is never written.
assemble_nofactor(s) ==
    IF s.imagstring = <<"0">> THEN s.realstring
    ELSE IF s.realstring = <<"0">>
    THEN IF s.operation = "-" THEN <<"-">> \o s.imagstring \o <<"i">>
         ELSE s.imagstring \o <<"i">>
    ELSE s.realstring \o <<" ", s.operation, " ">> \o s.imagstring \o <<"i">>

\* Lines 74-84: the returned string.
assemble(s) ==
    IF s.imagstring = <<"0">> THEN s.realstring
    ELSE IF s.realstring = <<"0">>
    THEN IF s.operation = "-" THEN <<"-">> \o s.imagstring \o <<"i">>
         ELSE s.imagstring \o <<"i">>
    ELSE IF s.common_facstring # <<>>
    THEN s.common_facstring[1] \o <<"(">> \o s.realstring \o <<" ", s.operation, " ">>
         \o s.imagstring \o <<"i", ")">>
    ELSE s.realstring \o <<" ", s.operation, " ">> \o s.imagstring \o <<"i">>

num_to_latex(n, p) == assemble(render_parts(extract_factor(n), p))

(***************************************************************************)
(* The arguments of the modelled calls.                                    *)
(***************************************************************************)
ReVals == {0, 1000000, -1000000, 3000000, -3000000, 120000000,
           500000, -500000, 707107, -707107, 123456, 120400000,
           123456000, -123456000, 9500000, 8500000, -2500000}
ImVals == {0, 1000000, -1000000, 3000000, -3000000, 500000,
           707107, -707107, 123457000, 707110}
Scalars == [re : ReVals, im : ImVals]
Precisions == 0..MaxPrecision

(***************************************************************************)
(* One call of num_to_latex, in three steps.                               *)
(***************************************************************************)
ArrayIdle ==
    /\ array = [coercible |-> TRUE, dtype |-> "complex", ndim |-> 1, data |-> <<>>]
    /\ precision = 0
    /\ pretext = <<>>
    /\ display_output = FALSE
    /\ out_string = <<>>
    /\ row = 0
    /\ col = 0
    /\ output = <<>>
    /\ returned = <<>>
    /\ displayed = <<>>
    /\ error = <<>>
    /\ formatted = 0
    /\ pc = "idle"

InitScalar ==
    /\ num \in Scalars
    /\ nprecision \in Precisions
    /\ r = num.re
    /\ i = num.im
    /\ common_factor = <<>>
    /\ common_facstring = <<>>
    /\ realstring = <<>>
    /\ operation = "+"
    /\ imagstring = <<>>
    /\ result = <<>>
    /\ npc = "factor"
    /\ ArrayIdle

\* Lines 19-27.
NumFactor ==
    /\ npc = "factor"
    /\ LET f == extract_factor(num)
       IN  /\ r' = f.r
           /\ i' = f.i
           /\ common_factor' = f.common_factor
    /\ npc' = "render"
    /\ UNCHANGED <<num, nprecision, common_facstring, realstring, operation,
                   imagstring, result, array_vars>>

\* Lines 61-73.
NumRender ==
    /\ npc = "render"
    /\ LET s == render_parts([r |-> r, i |-> i, common_factor |-> common_factor],
                             nprecision)
       IN  /\ common_facstring' = s.common_facstring
           /\ realstring' = s.realstring
           /\ operation' = s.operation
           /\ imagstring' = s.imagstring
    /\ npc' = "assemble"
    /\ UNCHANGED <<num, nprecision, r, i, common_factor, result, array_vars>>

\* Lines 74-84.
NumReturn ==
    /\ npc = "assemble"
    /\ result' = <<assemble([common_facstring |-> common_facstring,
                             realstring |-> realstring,
                             operation |-> operation,
                             imagstring |-> imagstring])>>
    /\ npc' = "done"
    /\ UNCHANGED <<num, nprecision, r, i, common_factor, common_facstring,
                   realstring, operation, imagstring, array_vars>>

NextScalar == NumFactor \/ NumRender \/ NumReturn

SpecScalar == InitScalar /\ [][NextScalar]_vars

(***************************************************************************)
(* vector_to_latex, matrix_to_latex, array_to_latex                        *)
(***************************************************************************)
DD == <<"$", "$", "\n">>
BEGIN_BMATRIX ==
    <<"\\", "b", "e", "g", "i", "n", "{", "b", "m", "a", "t", "r", "i", "x", "}", "\n">>
END_BMATRIX ==
    <<"\\", "e", "n", "d", "{", "b", "m", "a", "t", "r", "i", "x", "}", "\n">>
ROW_BREAK == <<" ", "\\", "\\", "\n">>
COL_SEP == <<" ", "&", " ">>

NumericalMessage ==
    "array_to_latex can only convert numpy arrays containing numerical data, or types that can be converted to such arrays"
DimensionMessage ==
    "array_to_latex can only convert numpy ndarrays of dimension 1 or 2"

\* Lines 96-97 and 117-118: "$$\n{}".format(pretext) + "\\begin{bmatrix}\n".
open_envelope(pre) == DD \o pre \o BEGIN_BMATRIX

\* Lines 99-100: one element of the vector.
vector_append(out, amplitude, p) == out \o num_to_latex(amplitude, p) \o ROW_BREAK

\* vector_close without the test of line 101: the slice is always taken.
vector_close_noguard(out, n) == DropLast(out, 4) \o <<"\n">> \o END_BMATRIX

\* Lines 101-103: after the loop, for a vector of n elements.
vector_close(out, n) ==
    (IF n # 0 THEN DropLast(out, 4) \o <<"\n">> ELSE out) \o END_BMATRIX

\* Lines 121-122: one element of a row.
matrix_append(out, amplitude, p) == out \o num_to_latex(amplitude, p) \o COL_SEP

\* Lines 123-124: after the inner loop.
matrix_row_close(out) == DropLast(out, 2) \o ROW_BREAK

\* Line 125.
matrix_close(out) == out \o END_BMATRIX \o DD

\* Lines 144-148: np.asarray(array) succeeds and array + 1 is defined.
is_numerical(a) == a.coercible /\ a.dtype \in {"bool", "int", "float", "complex"}

\* dispatch with "array.ndim >= 2" for the test of line 151.
dispatch_ge2(ndim) ==
    IF ndim = 1 THEN "vector" ELSE IF ndim >= 2 THEN "matrix" ELSE "raise"

\* Lines 149-154: the branch on array.ndim.
dispatch(ndim) ==
    IF ndim = 1 THEN "vector" ELSE IF ndim = 2 THEN "matrix" ELSE "raise"

(***************************************************************************)
(* The arguments of array_to_latex.                                        *)
(***************************************************************************)
Amplitudes == { [re |-> 707107, im |-> -707107],
                [re |-> 120400000, im |-> 0] }

Vectors == UNION {[1..n -> Amplitudes] : n \in 0..MaxLen}
Rows(n) == [1..n -> Amplitudes]
Matrices == UNION {[1..m -> Rows(n)] : m \in 0..MaxRows, n \in 0..MaxCols}

NumArray(ndim, data) ==
    [coercible |-> TRUE, dtype |-> "complex", ndim |-> ndim, data |-> data]

Arrays ==
    {NumArray(1, v) : v \in Vectors}
    \cup {NumArray(2, m) : m \in Matrices}
    \* a bare scalar, and grids of shape (1, 0, 0) and (2, 0, 0)
    \cup {NumArray(0, <<a>>) : a \in Amplitudes}
    \cup {NumArray(3, <<<<>>>>), NumArray(3, <<<<>>, <<>>>>)}
    \* strings, objects without addition, and a ragged nesting
    \cup {[coercible |-> TRUE, dtype |-> "str", ndim |-> 1, data |-> <<"a", "b">>],
          [coercible |-> TRUE, dtype |-> "object", ndim |-> 2, data |-> <<<<"None">>>>],
          [coercible |-> TRUE, dtype |-> "str", ndim |-> 3, data |-> <<<<<<"a">>>>>>],
          [coercible |-> FALSE, dtype |-> "object", ndim |-> 1, data |-> <<>>]}

Pretexts == {<<>>, <<"A", " ", "=", " ">>}

ScalarIdle ==
    /\ num = [re |-> 0, im |-> 0]
    /\ nprecision = 0
    /\ r = 0
    /\ i = 0
    /\ common_factor = <<>>
    /\ common_facstring = <<>>
    /\ realstring = <<>>
    /\ operation = "+"
    /\ imagstring = <<>>
    /\ result = <<>>
    /\ npc = "idle"

Init ==
    /\ array \in Arrays
    /\ precision \in Precisions
    /\ pretext \in Pretexts
    /\ display_output \in BOOLEAN
    /\ out_string = <<>>
    /\ row = 0
    /\ col = 0
    /\ output = <<>>
    /\ returned = <<>>
    /\ displayed = <<>>
    /\ error = <<>>
    /\ formatted = 0
    /\ pc = "asarray"
    /\ ScalarIdle

\* Lines 144-148.
Coerce ==
    /\ pc = "asarray"
    /\ IF is_numerical(array)
       THEN /\ pc' = "dispatch"
            /\ error' = error
       ELSE /\ pc' = "raised"
            /\ error' = <<[type |-> "ValueError", message |-> NumericalMessage]>>
    /\ UNCHANGED <<array, precision, pretext, display_output, out_string, row, col,
                   output, returned, displayed, formatted, scalar_vars>>

\* Lines 149-154, with lines 96-97 or 117-118 of the function entered.
Dispatch ==
    /\ pc = "dispatch"
    /\ LET target == dispatch(array.ndim)
       IN  IF target = "raise"
           THEN /\ pc' = "raised"
                /\ error' = <<[type |-> "ValueError", message |-> DimensionMessage]>>
                /\ out_string' = out_string
           ELSE /\ pc' = target
                /\ error' = error
                /\ out_string' = open_envelope(pretext)
    /\ UNCHANGED <<array, precision, pretext, display_output, row, col,
                   output, returned, displayed, formatted, scalar_vars>>

\* Lines 98-100: one turn of the loop of vector_to_latex.
VectorElement ==
    /\ pc = "vector"
    /\ row < Len(array.data)
    /\ out_string' = vector_append(out_string, array.data[row + 1], precision)
    /\ row' = row + 1
    /\ formatted' = formatted + 1
    /\ UNCHANGED <<array, precision, pretext, display_output, col,
                   output, returned, displayed, error, pc, scalar_vars>>

\* Lines 101-104.
VectorReturn ==
    /\ pc = "vector"
    /\ row = Len(array.data)
    /\ out_string' = vector_close(out_string, Len(array.data))
    /\ output' = <<out_string'>>
    /\ pc' = "deliver"
    /\ UNCHANGED <<array, precision, pretext, display_output, row, col,
                   returned, displayed, error, formatted, scalar_vars>>

\* Lines 120-122: one turn of the inner loop of matrix_to_latex.
MatrixElement ==
    /\ pc = "matrix"
    /\ row < Len(array.data)
    /\ col < Len(array.data[row + 1])
    /\ out_string' = matrix_append(out_string, array.data[row + 1][col + 1], precision)
    /\ col' = col + 1
    /\ formatted' = formatted + 1
    /\ UNCHANGED <<array, precision, pretext, display_output, row,
                   output, returned, displayed, error, pc, scalar_vars>>

\* Lines 123-124: the end of a row.
MatrixRowEnd ==
    /\ pc = "matrix"
    /\ row < Len(array.data)
    /\ col = Len(array.data[row + 1])
    /\ out_string' = matrix_row_close(out_string)
    /\ row' = row + 1
    /\ col' = 0
    /\ UNCHANGED <<array, precision, pretext, display_output,
                   output, returned, displayed, error, formatted, pc, scalar_vars>>

\* Lines 125-126.
MatrixReturn ==
    /\ pc = "matrix"
    /\ row = Len(array.data)
    /\ out_string' = matrix_close(out_string)
    /\ output' = <<out_string'>>
    /\ pc' = "deliver"
    /\ UNCHANGED <<array, precision, pretext, display_output, row, col,
                   returned, displayed, error, formatted, scalar_vars>>

\* Lines 155-158.
Deliver ==
    /\ pc = "deliver"
    /\ IF display_output
       THEN /\ displayed' = Append(displayed, output[1])
            /\ returned' = returned
       ELSE /\ returned' = output
            /\ displayed' = displayed
    /\ pc' = "done"
    /\ UNCHANGED <<array, precision, pretext, display_output, out_string, row, col,
                   output, error, formatted, scalar_vars>>

Next ==
    \/ Coerce
    \/ Dispatch
    \/ VectorElement
    \/ VectorReturn
    \/ MatrixElement
    \/ MatrixRowEnd
    \/ MatrixReturn
    \/ Deliver

Spec == Init /\ [][Next]_vars

(***************************************************************************)
(* Operators on strings used to state the properties.                      *)
(***************************************************************************)
IsPrefix(p, s) == Len(p) <= Len(s) /\ SubSeq(s, 1, Len(p)) = p
IsSuffix(p, s) == Len(p) <= Len(s) /\ SubSeq(s, Len(s) - Len(p) + 1, Len(s)) = p
CountOcc(p, s) ==
    Cardinality({k \in 1..(Len(s) - Len(p) + 1) : SubSeq(s, k, k + Len(p) - 1) = p})

\* The strings of ss, with sep between consecutive ones.
RECURSIVE Join(_, _)
Join(ss, sep) ==
    IF Len(ss) = 0 THEN <<>>
    ELSE IF Len(ss) = 1 THEN ss[1]
    ELSE ss[1] \o sep \o Join(Tail(ss), sep)

\* A fixed-point decimal with the trailing zeros of its fractional part removed;
\* without a point there is no fractional part and nothing to remove.
StripFractionZeros(s) == IF \E k \in 1..Len(s) : s[k] = "." THEN rstrip0(s) ELSE s

Finished == pc \in {"deliver", "done"}
Rendered == npc \in {"assemble", "done"}
Rows_ == Len(array.data)
Cols_ == IF Len(array.data) = 0 THEN 0 ELSE Len(array.data[1])

(***************************************************************************)
(* Properties of array_to_latex (checked under Spec).                      *)
(***************************************************************************)

\* C1: for every rank-1 and rank-2 numeric input the produced string starts
\* with "$$\n" and ends with "$$\n", the two delimiters being distinct.
C1_Wrapped ==
    (Finished /\ array.ndim \in {1, 2}) =>
        /\ Len(output[1]) >= 2 * Len(DD)
        /\ IsPrefix(DD, output[1])
        /\ IsSuffix(DD, output[1])

\* C2: for an m x n matrix with m, n >= 1 the output holds exactly m-1
\* row-break markers (none after the last row) and n-1 column separators in
\* each of its m rows (none after the last column).
C2_Separators ==
    (Finished /\ array.ndim = 2 /\ Rows_ >= 1 /\ Cols_ >= 1) =>
        /\ CountOcc(ROW_BREAK, output[1]) = Rows_ - 1
        /\ CountOcc(COL_SEP, output[1]) = Rows_ * (Cols_ - 1)

\* C3: an input that is not numerical data, or whose rank is not 1 or 2, ends
\* in a ValueError with the message of its case; neither loop is entered, no
\* scalar is formatted, nothing is displayed and nothing is returned.
C3_InvalidRejected ==
    LET nonnumeric == ~array.coercible \/ array.dtype \in {"str", "object"}
        badrank == array.ndim \notin {1, 2}
    IN  (pc # "idle" /\ (nonnumeric \/ badrank)) =>
            /\ pc \in {"asarray", "dispatch", "raised"}
            /\ nonnumeric => pc # "dispatch"
            /\ formatted = 0
            /\ out_string = <<>>
            /\ output = <<>>
            /\ displayed = <<>>
            /\ returned = <<>>
            /\ pc = "raised" =>
                   error = <<[type |-> "ValueError",
                              message |-> IF nonnumeric THEN NumericalMessage
                                          ELSE DimensionMessage]>>

\* C3 witness: a numerical grid of rank 3 has been refused.
C3_Witness ==
    /\ pc = "raised"
    /\ array.ndim = 3
    /\ array.dtype = "complex"
    /\ error # <<>>
    /\ error[1].message = DimensionMessage

\* C9: the output for a vector of n elements is the envelope around the n
\* renderings in input order, each followed by a newline and consecutive ones
\* separated by a row break: n-1 row breaks for n >= 1, an empty body for n = 0.
C9_VectorEnvelope ==
    (Finished /\ array.ndim = 1) =>
        LET n == Len(array.data)
            strs == [k \in 1..n |-> num_to_latex(array.data[k], precision)]
            body == IF n = 0 THEN <<>> ELSE Join(strs, ROW_BREAK) \o <<"\n">>
        IN  /\ output[1] = DD \o pretext \o BEGIN_BMATRIX \o body \o END_BMATRIX
            /\ CountOcc(ROW_BREAK, output[1]) = (IF n = 0 THEN 0 ELSE n - 1)
            /\ CountOcc(BEGIN_BMATRIX, output[1]) = 1
            /\ formatted = n

\* C9 witness: a vector of two elements has been assembled.
C9_Witness ==
    /\ pc = "done"
    /\ array.ndim = 1
    /\ Len(array.data) = 2
    /\ output # <<>>
    /\ CountOcc(ROW_BREAK, output[1]) = 1

\* C10: while and after a matrix is assembled, also one with rows of zero
\* columns, the text written before the rows (the opening delimiter, the
\* pretext and "\begin{bmatrix}\n") is still at the head of the string.
C10_RemovalKeepsEnvelope ==
    (pc \in {"matrix", "deliver", "done"} /\ array.ndim = 2) =>
        IsPrefix(DD \o pretext \o BEGIN_BMATRIX, out_string)

(***************************************************************************)
(* Properties of num_to_latex (checked under SpecScalar).                  *)
(***************************************************************************)

\* C4: a real part that is neither close to an integer nor close to a table
\* entry is rendered as a signed fraction exactly when |numerator| +
\* denominator of its rational approximation is below 20, and as the decimal
\* fallback otherwise.
C4_FractionIffSmall ==
    (Rendered /\ ~close_to_int(r) /\ term_matches(r) = {}) =>
        LET frac == limit_denominator(r)
            f == tfrac_str(Abs(frac.numerator), frac.denominator)
        IN  realstring =
                IF Abs(frac.numerator) + frac.denominator < FracLimit
                THEN (IF r > 0 THEN f ELSE <<"-">> \o f)
                ELSE decimal_str(r, nprecision)

\* C5 as stated: whenever a common factor is extracted the result is the
\* rendering of the factor followed by "(" real_str sign imag_str "i)", imag_str
\* being the rendering of the rescaled imaginary magnitude; for
\* 0.707107 + 0.707107i that is \tfrac{1}{\sqrt{2}}(1 + 1i).
C5_FactorFormWithOne ==
    (npc = "done" /\ common_factor # <<>>) =>
        result[1] = proc_value(common_factor[1], nprecision) \o <<"(">>
                    \o proc_value(r, nprecision)
                    \o <<" ", (IF num.im > 0 THEN "+" ELSE "-"), " ">>
                    \o proc_value(Abs(i), nprecision) \o <<"i", ")">>

\* C5 amended: whenever a common factor is extracted and the rescaled imaginary
\* magnitude does not render as "0", the result is the rendering of the factor
\* followed by "(" real_str " " sign " " imag_str "i)", where imag_str is the
\* rendering of the rescaled imaginary magnitude, left out when it is "1"; for
\* 0.707107 + 0.707107i that is \tfrac{1}{\sqrt{2}}(1 + i).
C5_FactorForm ==
    /\ (npc = "done" /\ common_factor # <<>>
          /\ proc_value(Abs(i), nprecision) # <<"0">>) =>
           LET im_str == proc_value(Abs(i), nprecision)
           IN  result[1] = proc_value(common_factor[1], nprecision) \o <<"(">>
                           \o proc_value(r, nprecision)
                           \o <<" ", (IF num.im > 0 THEN "+" ELSE "-"), " ">>
                           \o (IF im_str = <<"1">> THEN <<>> ELSE im_str)
                           \o <<"i", ")">>
    /\ (npc = "done" /\ num = [re |-> 707107, im |-> 707107]) =>
           result[1] = TFRAC \o <<"{", "1", "}", "{">> \o SQRT \o <<"{", "2", "}", "}">>
                       \o <<"(", "1", " ", "+", " ", "i", ")">>

\* C5 witness: 0.707107 + 0.707107i has been rendered with the factor 0.707107.
C5_Witness ==
    /\ npc = "done"
    /\ num = [re |-> 707107, im |-> 707107]
    /\ common_factor = <<707107>>
    /\ r = Scale
    /\ i = Scale

\* C6: in the decimal fallback the string is the value rounded to the precision
\* with only the trailing zeros of the fractional part removed, so no digit of
\* the integer part is lost.
C6_DecimalKeepsInteger ==
    (Rendered /\ proc_branch(r) = "decimal") =>
        realstring = StripFractionZeros(format_f(r, nprecision))

\* C7: for an integer n and any precision the result is the decimal string of
\* n: no common factor is written, nor an imaginary term; 0 gives "0".
C7_IntegerIsStr ==
    (npc = "done" /\ num.im = 0 /\ num.re % Scale = 0) =>
        /\ result = <<str(num.re \div Scale)>>
        /\ \A k \in 1..Len(result[1]) : result[1][k] \in {"-"} \cup {Digits[d] : d \in 1..10}
        /\ num.re = 0 => result = << <<"0">> >>
        /\ num.re = -3000000 => result = << <<"-", "3">> >>
        /\ num.re = 120000000 => result = << <<"1", "2", "0">> >>

\* C7 witness: the integer -3 has been rendered as "-3".
C7_Witness ==
    /\ npc = "done"
    /\ num = [re |-> -3000000, im |-> 0]
    /\ result = << <<"-", "3">> >>

\* C8: for a zero real part and a nonzero integer imaginary part k the result is
\* "i" for k = 1, "-i" for k = -1, else |k| followed by "i", with a leading "-"
\* exactly when k < 0; the sign is "+" if the original imaginary part is > 0 and
\* "-" otherwise.
C8_PureImaginary ==
    /\ (npc = "done" /\ num.re = 0 /\ num.im # 0 /\ num.im % Scale = 0) =>
           LET k == num.im \div Scale
           IN  result[1] = (IF k < 0 THEN <<"-">> ELSE <<>>)
                           \o (IF Abs(k) = 1 THEN <<>> ELSE NatStr(Abs(k)))
                           \o <<"i">>
    /\ Rendered => operation = (IF num.im > 0 THEN "+" ELSE "-")

\* C8 witness: -3i has been rendered as "-3i".
C8_Witness ==
    /\ npc = "done"
    /\ num = [re |-> 0, im |-> -3000000]
    /\ result = << <<"-", "3", "i">> >>

====
